---- MODULE Spec2Model ----
(***************************************************************************)
(* Temporal rate reconciliation of warehouse box rates                     *)
(* (src/src/cron/services/DataProcessor.ts).                               *)
(*                                                                         *)
(* The store has three tables: warehouses, tariff_periods and box_rates.   *)
(* A row id is the row's position in its table (ids in the program are     *)
(* opaque uuids).  One batch (transformAndSaveDataToDb) runs inside one    *)
(* transaction: trx is the store as the transaction sees it, db is the     *)
(* committed store.                                                        *)
(*                                                                         *)
(* Numbers.  A rate is a decimal numeral with at most four decimal places, *)
(* written n for the numeral n/10^4; NaN stands for the result of          *)
(* Number() on a malformed string.  The program holds rates as IEEE-754    *)
(* doubles; the double nearest to n/10^4 is n/10^4 + Err(n)/(10^4 * 2^59). *)
(*                                                                         *)
(* Time.  start_date and end_date are timestamp columns                    *)
(* (src/unnamed/part_001); instants are integers and NULL is no end.       *)
(***************************************************************************)
EXTENDS Integers, Sequences, FiniteSets, TLC

VARIABLES
    db,                 \* committed store
    trx,                \* store as seen by the open transaction
    pc,                 \* position of the batch
    pd,                 \* processedData of the running batch
    i,                  \* loop index of the running pass
    now,                \* reference instant of the running batch
    clock,              \* wall clock
    tariffPeriodsCount, \* counters of processTariffPeriodsAndRates
    boxRatesCount,
    log,                \* logger lines and store branches of the running batch
    result,             \* how the last batch ended
    cmpIn,              \* comparator harness: <<stored vector, incoming vector>>
    cmpOut,             \* comparator harness: result of the comparison
    sync,               \* the syncRates run around the batch
    pair,               \* two batches that may overlap, and their store
    openedWith          \* history: the vector each period's rate row was
                        \* inserted with

vars == <<db, trx, pc, pd, i, now, clock, tariffPeriodsCount, boxRatesCount,
          log, result, cmpIn, cmpOut, sync, pair, openedWith>>

----------------------------------------------------------------------------
(* Bounds *)

NumKeys == 2        \* natural keys (geo_name, warehouse_name) upstream can send
MaxRecords == 2     \* records in one snapshot
MaxTime == 1        \* last instant of the wall clock
MaxPeriods == 3     \* tariff_periods rows the store may hold

(* Program constants *)

NumFields == 9      \* numeric fields of a rate vector
Tol == 100          \* the tolerance 0.01
Scale == 10000      \* numerals are counted in 1/10^4
Cent == 100         \* one step of a decimal(10,2) column
ErrBits == 59       \* doubles in [2^-7, 2^6) are multiples of 2^-59

NaN == -1
NULL == -1
NoId == 0

Keys == 1..NumKeys
Times == 0..MaxTime
Horizons == 0..(MaxTime + 1)    \* a horizon may lie beyond the clock's reach
Fields == 1..NumFields

----------------------------------------------------------------------------
(* IEEE-754 doubles *)

RECURSIVE UlpExp(_, _)
\* largest j in k..12 with 2^j * 10^4 <= 128 * n: the double nearest n/10^4
\* lies in [2^(j-7), 2^(j-6)) and its ulp is 2^(j-59)
UlpExp(n, j) ==
    IF j < 12 /\ Scale * (2 ^ (j + 1)) <= 128 * n THEN UlpExp(n, j + 1) ELSE j

RECURSIVE DoubleMod(_, _, _)
\* (r * 2^k) mod m for r < m < 2^26, five bits at a time
DoubleMod(r, k, m) ==
    IF k = 0 THEN r
    ELSE IF k >= 5 THEN DoubleMod((32 * r) % m, k - 5, m)
    ELSE DoubleMod((2 * r) % m, k - 1, m)

\* Rounding error of Number("n/10^4"), in units of 1/(10^4 * 2^59):
\* round to nearest (a tie cannot occur for these numerals).
Err(n) ==
    IF n = 0 THEN 0
    ELSE LET m == (2 ^ UlpExp(n, 0)) * Scale
             r == DoubleMod(n % m, ErrBits, m)
         IN  IF 2 * r < m THEN 0 - r ELSE m - r

\* Math.abs(processed - db) > 0.01 on doubles.  With NaN the comparison is
\* false.  A difference of the numerals other than 0.01 decides by itself;
\* at exactly 0.01 the subtraction of the two doubles is exact and the
\* rounding errors decide.
ExceedsTol(processed, stored) ==
    IF processed = NaN \/ stored = NaN THEN FALSE
    ELSE LET diff == IF processed >= stored THEN processed - stored
                                            ELSE stored - processed
             e    == IF processed >= stored THEN Err(processed) - Err(stored)
                                            ELSE Err(stored) - Err(processed)
         IN  IF diff # Tol THEN diff > Tol ELSE e > Err(Tol)

\* Number(str.replace(',', '.')): a decimal numeral gives its double, any
\* other string gives NaN.
BAD == -2
ToNumber(str) == IF str = BAD THEN NaN ELSE str

\* variant: the column drops the digits beyond the second
DbTruncate(n) == IF n = NaN THEN NaN ELSE (n \div Cent) * Cent

\* A decimal(10,2) column rounds the numeral it is given half away from
\* zero; NaN is a value of the numeric type.
DbRound(n) == IF n = NaN THEN NaN ELSE ((n + (Cent \div 2)) \div Cent) * Cent

DbRoundVec(v) == [f \in Fields |-> DbRound(v[f])]

----------------------------------------------------------------------------
(* Rate comparator *)

RECURSIVE FirstMismatch(_, _, _)
\* the loop over fieldsToCompare: the first field above the tolerance, or 0
FirstMismatch(newRate, existingRate, f) ==
    IF f > NumFields THEN 0
    ELSE IF ExceedsTol(newRate[f], existingRate[f]) THEN f
    ELSE FirstMismatch(newRate, existingRate, f + 1)

\* rows of box_rates of store s for (periodId, warehouseId)
RateRows(s, periodId, warehouseId) ==
    {r \in 1..Len(s.rates) :
        /\ s.rates[r].tariff_period_id = periodId
        /\ s.rates[r].warehouse_id = warehouseId}

NoRow == <<>>

\* the rows .first() may return for (periodId, warehouseId), read as floats
ExistingRates(s, periodId, warehouseId) ==
    IF RateRows(s, periodId, warehouseId) = {} THEN {NoRow}
    ELSE {s.rates[r].vec : r \in RateRows(s, periodId, warehouseId)}

\* checkRatesMatchForWarehouse, given the row its query returned
checkRatesMatchForWarehouse(existingRate, newRate) ==
    IF existingRate = NoRow THEN FALSE
    ELSE FirstMismatch(newRate, existingRate, 1) = 0

----------------------------------------------------------------------------
(* Period locator *)

Active(p, t) == p.start_date <= t /\ (p.end_date = NULL \/ p.end_date >= t)

\* variant: the period active at t, whichever warehouse it is attached to
getCurrentPeriod(s, warehouseId, t) ==
    {s.rates[r].tariff_period_id : r \in
        {q \in 1..Len(s.rates) :
            Active(s.periods[s.rates[q].tariff_period_id], t)}}

\* periods joined to a box_rates row of the warehouse and active at t
getCurrentPeriodForWarehouse(s, warehouseId, t) ==
    {s.rates[r].tariff_period_id : r \in
        {q \in 1..Len(s.rates) :
            /\ s.rates[q].warehouse_id = warehouseId
            /\ Active(s.periods[s.rates[q].tariff_period_id], t)}}

----------------------------------------------------------------------------
(* Snapshots *)

Base == 10000       \* 1.00
Near == 10051       \* 1.0051: within the tolerance of 1.00, stored as 1.01
Edge == 10100       \* 1.01: exactly 0.01 from 1.00
Far  == 10101       \* 1.0101: 0.0101 from 1.00, stored as 1.01

VecWith(f, x) == [g \in Fields |-> IF g = f THEN x ELSE Base]

\* rate strings of one upstream record: all fields 1.00 but the last
InVecs == {VecWith(NumFields, x) : x \in {Base, Near, Edge, Far}}

\* the first key carries any of them, the other keys an unchanged or a
\* clearly changed rate
RatesOf(key) ==
    IF key = 1 THEN InVecs ELSE {VecWith(NumFields, x) : x \in {Base, Far}}

Records == UNION {{[key |-> k, rate |-> v] : v \in RatesOf(k)} : k \in Keys}

Snapshots ==
    UNION {[1..n -> Records] : n \in 0..MaxRecords}

EmptyStore == [warehouses |-> <<>>, periods |-> <<>>, rates |-> <<>>]

NoResult == [status |-> "none"]

\* no syncRates run
NoSync == [pc |-> "off", steps |-> <<>>, rates |-> <<>>, error |-> "none"]

\* a batch that is not running
NoRun == [pc |-> "idle"]

\* no overlapping batches
NoPair == [store |-> EmptyStore, run |-> <<NoRun, NoRun>>, started |-> 0]

NoData == [warehouses |-> <<>>, boxRates |-> <<>>, tariffPeriodEndDate |-> 0]

convertWbDataToProcessedData(list, dtTillMax) ==
    [warehouses |-> [k \in 1..Len(list) |-> [id |-> NoId, key |-> list[k].key]],
     boxRates |-> [k \in 1..Len(list) |->
                     [warehouse_id |-> NoId, tariff_period_id |-> NoId,
                      vec |-> [f \in Fields |-> ToNumber(list[k].rate[f])]]],
     tariffPeriodEndDate |-> dtTillMax]

----------------------------------------------------------------------------
Init ==
    /\ db = EmptyStore
    /\ trx = EmptyStore
    /\ pc = "idle"
    /\ pd = NoData
    /\ i = 0
    /\ now = 0
    /\ clock = 0
    /\ tariffPeriodsCount = 0
    /\ boxRatesCount = 0
    /\ log = <<>>
    /\ result = NoResult
    /\ cmpIn = <<>>
    /\ cmpOut = <<>>
    /\ sync = NoSync
    /\ pair = NoPair
    /\ openedWith = <<>>

Cleared ==
    /\ pd' = NoData
    /\ i' = 0
    /\ now' = 0
    /\ tariffPeriodsCount' = 0
    /\ boxRatesCount' = 0
    /\ log' = <<>>

Line(op, pass, at, period, created) ==
    [op |-> op, pass |-> pass, at |-> at, period |-> period, created |-> created]

\* position after record `at` of a pass over n records
After(pass, next, at, n) == IF at < n THEN <<pass, at + 1>> ELSE <<next, 1>>

Tick ==
    /\ pc = "idle"
    /\ clock < MaxTime
    /\ clock' = clock + 1
    /\ UNCHANGED <<db, trx, pc, pd, i, now, tariffPeriodsCount, boxRatesCount,
                   log, result, cmpIn, cmpOut, sync, pair, openedWith>>

\* knex.transaction opens; convertWbDataToProcessedData
transformAndSaveDataToDb(list, dtTillMax) ==
    /\ pc = "idle"
    /\ Len(db.periods) < MaxPeriods
    /\ pd' = convertWbDataToProcessedData(list, dtTillMax)
    /\ trx' = db
    /\ pc' = IF Len(list) = 0 THEN "commit" ELSE "warehouses"
    /\ i' = 1
    /\ now' = IF Len(list) = 0 THEN clock ELSE 0
    /\ tariffPeriodsCount' = 0
    /\ boxRatesCount' = 0
    /\ log' = <<>>
    /\ result' = NoResult
    /\ UNCHANGED <<db, clock, cmpIn, cmpOut, pair, openedWith>>

\* variant: every record inserts a warehouse row, without a lookup
processWarehousesInsertOnly ==
    /\ pc = "warehouses"
    /\ LET warehouse == pd.warehouses[i]
           pos == After("warehouses", "periods", i, Len(pd.warehouses))
       IN  /\ trx' = [trx EXCEPT !.warehouses =
                            Append(@, [key |-> warehouse.key])]
           /\ pd' = [pd EXCEPT !.warehouses[i].id = Len(trx.warehouses) + 1]
           /\ pc' = pos[1]
           /\ i' = pos[2]
           /\ now' = IF pos[1] = "periods" THEN clock ELSE now
    /\ UNCHANGED <<db, clock, tariffPeriodsCount, boxRatesCount, log,
                   result, cmpIn, cmpOut, sync, pair, openedWith>>

\* one iteration of the loop of processWarehouses; after the last one
\* processTariffPeriodsAndRates starts and reads the clock
processWarehouses ==
    /\ pc = "warehouses"
    /\ LET warehouse == pd.warehouses[i]
           found == {w \in 1..Len(trx.warehouses) :
                        trx.warehouses[w].key = warehouse.key}
           pos == After("warehouses", "periods", i, Len(pd.warehouses))
       IN  /\ \/ /\ found # {}
                 /\ \E w \in found :
                        pd' = [pd EXCEPT !.warehouses[i].id = w]
                 /\ trx' = trx
              \/ /\ found = {}
                 /\ trx' = [trx EXCEPT !.warehouses =
                                Append(@, [key |-> warehouse.key])]
                 /\ pd' = [pd EXCEPT !.warehouses[i].id =
                                Len(trx.warehouses) + 1]
           /\ pc' = pos[1]
           /\ i' = pos[2]
           /\ now' = IF pos[1] = "periods" THEN clock ELSE now
    /\ UNCHANGED <<db, clock, tariffPeriodsCount, boxRatesCount, log,
                   result, cmpIn, cmpOut, sync, pair, openedWith>>

PeriodPos == After("periods", "save", i, Len(pd.warehouses))

\* loop body of processTariffPeriodsAndRates: warehouse without an id
SkipWarehouse ==
    /\ pd.warehouses[i].id = NoId
    /\ UNCHANGED <<trx, pd, tariffPeriodsCount, boxRatesCount>>
    /\ log' = Append(log, Line("missing", "periods", i, NoId, NoId))

\* variant: an extension is counted like a new period and a new rate row
ExtendPeriodCounted(currentPeriod) ==
    /\ trx' = [trx EXCEPT !.periods[currentPeriod].end_date =
                    pd.tariffPeriodEndDate]
    /\ pd' = [pd EXCEPT !.boxRates[i].tariff_period_id = currentPeriod,
                        !.boxRates[i].warehouse_id = pd.warehouses[i].id]
    /\ tariffPeriodsCount' = tariffPeriodsCount + 1
    /\ boxRatesCount' = boxRatesCount + 1
    /\ log' = log \o <<Line("check", "periods", i, currentPeriod, NoId),
                       Line("extended", "periods", i, currentPeriod, NoId)>>

\* variant: the current period is extended to now
ExtendPeriodToNow(currentPeriod) ==
    /\ trx' = [trx EXCEPT !.periods[currentPeriod].end_date = now]
    /\ pd' = [pd EXCEPT !.boxRates[i].tariff_period_id = currentPeriod,
                        !.boxRates[i].warehouse_id = pd.warehouses[i].id]
    /\ UNCHANGED <<tariffPeriodsCount, boxRatesCount>>
    /\ log' = log \o <<Line("check", "periods", i, currentPeriod, NoId),
                       Line("extended", "periods", i, currentPeriod, NoId)>>

\* rates unchanged: the current period is extended to the horizon
ExtendPeriod(currentPeriod) ==
    /\ trx' = [trx EXCEPT !.periods[currentPeriod].end_date =
                    pd.tariffPeriodEndDate]
    /\ pd' = [pd EXCEPT !.boxRates[i].tariff_period_id = currentPeriod,
                        !.boxRates[i].warehouse_id = pd.warehouses[i].id]
    /\ UNCHANGED <<tariffPeriodsCount, boxRatesCount>>
    /\ log' = log \o <<Line("check", "periods", i, currentPeriod, NoId),
                       Line("extended", "periods", i, currentPeriod, NoId)>>

\* variant: a new period is opened and the current one is left as it is
RolloverLeavesOpen(currentPeriod) ==
    LET newPeriod == Len(trx.periods) + 1
    IN  /\ newPeriod <= MaxPeriods
        /\ trx' = [trx EXCEPT !.periods =
                        Append(@, [start_date |-> now,
                                   end_date |-> pd.tariffPeriodEndDate])]
        /\ pd' = [pd EXCEPT !.boxRates[i].tariff_period_id = newPeriod,
                            !.boxRates[i].warehouse_id = pd.warehouses[i].id]
        /\ tariffPeriodsCount' = tariffPeriodsCount + 1
        /\ boxRatesCount' = boxRatesCount + 1
        /\ log' = log \o <<Line("check", "periods", i, currentPeriod, NoId),
                           Line("closed", "periods", i, currentPeriod, newPeriod)>>

\* variant: the rollover reads the clock again
RolloverAtClock(currentPeriod) ==
    LET newPeriod == Len(trx.periods) + 1
    IN  /\ newPeriod <= MaxPeriods
        /\ trx' = [trx EXCEPT !.periods =
                        Append([@ EXCEPT ![currentPeriod].end_date = clock],
                               [start_date |-> clock,
                                end_date |-> pd.tariffPeriodEndDate])]
        /\ pd' = [pd EXCEPT !.boxRates[i].tariff_period_id = newPeriod,
                            !.boxRates[i].warehouse_id = pd.warehouses[i].id]
        /\ tariffPeriodsCount' = tariffPeriodsCount + 1
        /\ boxRatesCount' = boxRatesCount + 1
        /\ log' = log \o <<Line("check", "periods", i, currentPeriod, NoId),
                           Line("closed", "periods", i, currentPeriod, newPeriod)>>

\* rates changed: the current period is closed at now and a new one opened
RolloverPeriod(currentPeriod) ==
    LET newPeriod == Len(trx.periods) + 1
    IN  /\ newPeriod <= MaxPeriods
        /\ trx' = [trx EXCEPT !.periods =
                        Append([@ EXCEPT ![currentPeriod].end_date = now],
                               [start_date |-> now,
                                end_date |-> pd.tariffPeriodEndDate])]
        /\ pd' = [pd EXCEPT !.boxRates[i].tariff_period_id = newPeriod,
                            !.boxRates[i].warehouse_id = pd.warehouses[i].id]
        /\ tariffPeriodsCount' = tariffPeriodsCount + 1
        /\ boxRatesCount' = boxRatesCount + 1
        /\ log' = log \o <<Line("check", "periods", i, currentPeriod, NoId),
                           Line("closed", "periods", i, currentPeriod, newPeriod)>>

\* no current period: a new one is opened
CreatePeriod ==
    LET newPeriod == Len(trx.periods) + 1
    IN  /\ newPeriod <= MaxPeriods
        /\ trx' = [trx EXCEPT !.periods =
                        Append(@, [start_date |-> now,
                                   end_date |-> pd.tariffPeriodEndDate])]
        /\ pd' = [pd EXCEPT !.boxRates[i].tariff_period_id = newPeriod,
                            !.boxRates[i].warehouse_id = pd.warehouses[i].id]
        /\ tariffPeriodsCount' = tariffPeriodsCount + 1
        /\ boxRatesCount' = boxRatesCount + 1
        /\ log' = Append(log, Line("created", "periods", i, NoId, newPeriod))

\* one iteration of the loop of processTariffPeriodsAndRates; .first()
\* takes any row of a query that has no ORDER BY
processTariffPeriodsAndRates ==
    /\ pc = "periods"
    /\ LET warehouse == pd.warehouses[i]
           boxRate == pd.boxRates[i]
           current == getCurrentPeriodForWarehouse(trx, warehouse.id, now)
       IN  \/ SkipWarehouse
           \/ /\ warehouse.id # NoId
              /\ current = {}
              /\ CreatePeriod
           \/ /\ warehouse.id # NoId
              /\ \E currentPeriod \in current :
                 \E existingRate \in
                        ExistingRates(trx, currentPeriod, warehouse.id) :
                    IF checkRatesMatchForWarehouse(existingRate, boxRate.vec)
                    THEN ExtendPeriod(currentPeriod)
                    ELSE RolloverPeriod(currentPeriod)
    /\ pc' = PeriodPos[1]
    /\ i' = PeriodPos[2]
    /\ UNCHANGED <<db, now, clock, result, cmpIn, cmpOut, sync, pair, openedWith>>

\* variant: a plain insert
InsertAlways(s, boxRate) ==
    [s EXCEPT !.rates =
        Append(@, [warehouse_id |-> boxRate.warehouse_id,
                   tariff_period_id |-> boxRate.tariff_period_id,
                   vec |-> DbRoundVec(boxRate.vec)])]

\* insert ... on conflict (warehouse_id, tariff_period_id) merge
Upsert(s, boxRate) ==
    LET rows == RateRows(s, boxRate.tariff_period_id, boxRate.warehouse_id)
        row == [warehouse_id |-> boxRate.warehouse_id,
                tariff_period_id |-> boxRate.tariff_period_id,
                vec |-> DbRoundVec(boxRate.vec)]
    IN  IF rows = {} THEN [s EXCEPT !.rates = Append(@, row)]
        ELSE [s EXCEPT !.rates = [r \in 1..Len(@) |->
                                    IF r \in rows THEN row ELSE @[r]]]

\* one iteration of the loop of saveBoxRates
saveBoxRates ==
    /\ pc = "save"
    /\ LET boxRate == pd.boxRates[i]
           pos == After("save", "commit", i, Len(pd.boxRates))
           conflict == RateRows(trx, boxRate.tariff_period_id,
                                boxRate.warehouse_id) # {}
       IN  /\ IF boxRate.warehouse_id = NoId \/ boxRate.tariff_period_id = NoId
              THEN /\ trx' = trx
                   /\ log' = Append(log, Line("missing", "save", i, NoId, NoId))
              ELSE /\ trx' = Upsert(trx, boxRate)
                   /\ log' = Append(log,
                        Line(IF conflict THEN "merged" ELSE "inserted",
                             "save", i, boxRate.tariff_period_id, NoId))
           /\ pc' = pos[1]
           /\ i' = pos[2]
    /\ UNCHANGED <<db, pd, now, clock, tariffPeriodsCount, boxRatesCount,
                   result, cmpIn, cmpOut, sync, pair, openedWith>>

\* the vector of the rate row bound to period p of store s
BoundVec(s, p) ==
    LET rows == {r \in 1..Len(s.rates) : s.rates[r].tariff_period_id = p}
    IN  IF rows = {} THEN NoRow ELSE s.rates[CHOOSE r \in rows : TRUE].vec

\* the history extended by the periods the transaction inserted
OpenedWith(s) ==
    [p \in 1..Len(s.periods) |->
        IF p <= Len(openedWith) THEN openedWith[p] ELSE BoundVec(s, p)]

\* the transaction callback returns the summary: knex commits
Commit ==
    /\ pc = "commit"
    /\ db' = trx
    /\ trx' = trx
    /\ openedWith' = OpenedWith(trx)
    /\ result' = [status |-> "ok",
                  tariffPeriodsCount |-> tariffPeriodsCount,
                  warehousesCount |-> Len(pd.warehouses),
                  boxRatesCount |-> boxRatesCount]
    /\ pc' = "returned"
    /\ Cleared
    /\ UNCHANGED <<clock, cmpIn, cmpOut, sync, pair>>

\* variant: the writes of the failed transaction stay
KeepsWritten(committed, written) == written

\* what a rolled back transaction leaves in the store
RolledBack(committed, written) == committed

\* the error a store call of pass `pass` rejects with at record `at`
StoreError(pass, at) == [message |-> <<pass, at>>, cause |-> <<>>]

\* the catch block's new Error: the original's message is copied into the
\* text, and no cause is passed to the constructor (cause: the attached
\* error objects, none here)
WrappedError(error) ==
    [message |-> <<"Data processing failed: ">> \o error.message,
     cause |-> <<>>]

\* a store call of record i rejects: the catch block logs and rethrows, the
\* transaction callback rejects and knex rolls back
StoreFails ==
    /\ pc \in {"warehouses", "periods", "save"}
    /\ db' = RolledBack(db, trx)
    /\ trx' = db'
    /\ result' = [status |-> "error", pass |-> pc, at |-> i,
                  error |-> WrappedError(StoreError(pc, i)),
                  written |-> (Len(trx.warehouses) - Len(db.warehouses))
                              + (Len(trx.periods) - Len(db.periods))
                              + (Len(trx.rates) - Len(db.rates))]
    /\ pc' = "thrown"
    /\ Cleared
    /\ UNCHANGED <<clock, cmpIn, cmpOut, sync, pair, openedWith>>

\* the caller has the summary or the error
Settled ==
    /\ pc \in {"returned", "thrown"}
    /\ pc' = "idle"
    /\ result' = NoResult
    /\ UNCHANGED <<db, trx, pd, i, now, clock, tariffPeriodsCount,
                   boxRatesCount, log, cmpIn, cmpOut, pair, openedWith>>

Next ==
    \/ Tick
    \/ \E list \in Snapshots, dtTillMax \in Horizons :
            transformAndSaveDataToDb(list, dtTillMax) /\ UNCHANGED sync
    \/ processWarehouses
    \/ processTariffPeriodsAndRates
    \/ saveBoxRates
    \/ Commit
    \/ StoreFails
    \/ Settled /\ UNCHANGED sync

Spec == Init /\ [][Next]_vars

----------------------------------------------------------------------------
(* One batch at a time while the wall clock runs: the awaited store calls  *)
(* of a batch take time, so new Date() read later would return a later     *)
(* instant.                                                                *)

ClockRecords ==
    {[key |-> k, rate |-> VecWith(NumFields, x)] : k \in Keys, x \in {Base, Far}}

ClockSnapshots == UNION {[1..n -> ClockRecords] : n \in 0..MaxRecords}

\* time passes while a batch is running
Elapse ==
    /\ pc \in {"warehouses", "periods", "save", "commit"}
    /\ clock < MaxTime
    /\ clock' = clock + 1
    /\ UNCHANGED <<db, trx, pc, pd, i, now, tariffPeriodsCount, boxRatesCount,
                   log, result, cmpIn, cmpOut, sync, pair, openedWith>>

NextClock ==
    \/ Tick
    \/ Elapse
    \/ \E list \in ClockSnapshots, dtTillMax \in Horizons :
            transformAndSaveDataToDb(list, dtTillMax) /\ UNCHANGED sync
    \/ processWarehouses
    \/ processTariffPeriodsAndRates
    \/ saveBoxRates
    \/ Commit
    \/ StoreFails
    \/ Settled /\ UNCHANGED sync

SpecClock == Init /\ [][NextClock]_vars

----------------------------------------------------------------------------
(* Batches one after the other, each at a later instant than the periods   *)
(* the store holds were opened at, over snapshots that name a key once.    *)

MaxLater == 2

LaterHorizons == 0..(MaxLater + 1)

OnceSnapshots ==
    {list \in ClockSnapshots :
        \A m, n \in 1..Len(list) : list[m].key = list[n].key => m = n}

\* time passes between two batches
Later ==
    /\ pc = "idle"
    /\ clock < MaxLater
    /\ clock' = clock + 1
    /\ UNCHANGED <<db, trx, pc, pd, i, now, tariffPeriodsCount, boxRatesCount,
                   log, result, cmpIn, cmpOut, sync, pair, openedWith>>

\* every period of the store was opened before the present instant
StartsPassed ==
    \A p \in 1..Len(db.periods) : db.periods[p].start_date < clock

NextLater ==
    \/ Later
    \/ \E list \in OnceSnapshots, dtTillMax \in LaterHorizons :
            /\ StartsPassed
            /\ transformAndSaveDataToDb(list, dtTillMax)
            /\ UNCHANGED sync
    \/ processWarehouses
    \/ processTariffPeriodsAndRates
    \/ saveBoxRates
    \/ Commit
    \/ StoreFails
    \/ Settled /\ UNCHANGED sync

SpecLater == Init /\ [][NextLater]_vars

----------------------------------------------------------------------------
(* Batches whose snapshot may carry a rate string that is not a decimal    *)
(* numeral (the upstream sends "-" for a rate it does not have).           *)

\* records of the first warehouse, its last rate a numeral or malformed
BadRecords == {[key |-> 1, rate |-> VecWith(NumFields, x)] : x \in {Base, BAD}}

BadSnapshots == UNION {[1..n -> BadRecords] : n \in 0..MaxRecords}

NextBad ==
    \/ Tick
    \/ \E list \in BadSnapshots, dtTillMax \in Horizons :
            transformAndSaveDataToDb(list, dtTillMax) /\ UNCHANGED sync
    \/ processWarehouses
    \/ processTariffPeriodsAndRates
    \/ saveBoxRates
    \/ Commit
    \/ StoreFails
    \/ Settled /\ UNCHANGED sync

SpecBad == Init /\ [][NextBad]_vars

----------------------------------------------------------------------------
(* The comparator on its own: checkRatesMatchForWarehouse applied to a     *)
(* stored row and an incoming vector.                                       *)

\* values of one field: 1.00, 1.01, 1.0101, 2.00, 2.01 and a malformed string
CmpValues == {Base, Edge, Far, 2 * Base, (2 * Base) + Tol, BAD}

\* the row the query returns: none, or a row of a decimal(10,2) table
CmpStored == {NoRow} \cup {[g \in Fields |-> x] : x \in {Base, 2 * Base}}

\* incoming vectors: field f holds x, the other eight hold y
CmpIncoming ==
    {[g \in Fields |-> ToNumber(IF g = f THEN x ELSE y)] :
        f \in Fields, x \in CmpValues, y \in {Base, Far, 2 * Base}}

CmpInit ==
    /\ db = EmptyStore
    /\ trx = EmptyStore
    /\ pc = "idle"
    /\ pd = NoData
    /\ i = 0
    /\ now = 0
    /\ clock = 0
    /\ tariffPeriodsCount = 0
    /\ boxRatesCount = 0
    /\ log = <<>>
    /\ result = NoResult
    /\ cmpIn \in CmpStored \X CmpIncoming
    /\ cmpOut = <<>>
    /\ sync = NoSync
    /\ pair = NoPair
    /\ openedWith = <<>>

Compare ==
    /\ cmpOut = <<>>
    /\ cmpOut' = <<checkRatesMatchForWarehouse(cmpIn[1], cmpIn[2])>>
    /\ UNCHANGED <<cmpIn, db, trx, pc, pd, i, now, clock, tariffPeriodsCount,
                   boxRatesCount, log, result, sync, pair, openedWith>>

NextCmp == Compare

SpecCmp == CmpInit /\ [][NextCmp]_vars

----------------------------------------------------------------------------
(* The syncRates run (src/src/cron/syncRates.ts): fetch the snapshot,      *)
(* reconcile it in one batch, query the current rates, publish them.       *)

StorageCoef == 8    \* box_storage_coef among the nine fields

\* region name of a natural key: the keys share two region names
GeoName(key) == key % 2

\* variant: a period that ends at `today` is left out
CurrentRowsStrict(s, today) ==
    {r \in 1..Len(s.rates) :
        LET p == s.periods[s.rates[r].tariff_period_id]
        IN  p.end_date = NULL \/ p.end_date > today}

\* rate rows whose period has no end or ends at `today` or later
CurrentRows(s, today) ==
    {r \in 1..Len(s.rates) :
        LET p == s.periods[s.rates[r].tariff_period_id]
        IN  p.end_date = NULL \/ p.end_date >= today}

\* the columns selected for rate row r
SheetRow(s, r) ==
    [geo_name |-> GeoName(s.warehouses[s.rates[r].warehouse_id].key),
     warehouse_name |-> s.warehouses[s.rates[r].warehouse_id].key,
     vec |-> s.rates[r].vec,
     start_date |-> s.periods[s.rates[r].tariff_period_id].start_date,
     end_date |-> s.periods[s.rates[r].tariff_period_id].end_date]

\* numeric order of a decimal column: NaN sorts after every number
NumLess(a, b) == a # NaN /\ (b = NaN \/ a < b)

\* variant: orderBy box_storage_coef only
InOrderByCoef(a, b) ==
    \/ NumLess(a.vec[StorageCoef], b.vec[StorageCoef])
    \/ a.vec[StorageCoef] = b.vec[StorageCoef]

\* orderBy box_storage_coef asc, then geo_name
InOrder(a, b) ==
    \/ NumLess(a.vec[StorageCoef], b.vec[StorageCoef])
    \/ /\ a.vec[StorageCoef] = b.vec[StorageCoef]
       /\ a.geo_name <= b.geo_name

\* the orders in which the store may return `rows`: rows equal in both sort
\* keys come in any order
Orderings(s, rows) ==
    {q \in [1..Cardinality(rows) -> rows] :
        /\ \A m, n \in 1..Cardinality(rows) : q[m] = q[n] => m = n
        /\ \A n \in 1..(Cardinality(rows) - 1) :
                InOrder(SheetRow(s, q[n]), SheetRow(s, q[n + 1]))}

\* the results the current-rates query may return from store s at `today`
getDataForGoogleSheets(s, today) ==
    {[n \in 1..Cardinality(CurrentRows(s, today)) |-> SheetRow(s, q[n])] :
        q \in Orderings(s, CurrentRows(s, today))}

SyncIdle == [NoSync EXCEPT !.pc = "idle"]

SyncInit ==
    /\ db = EmptyStore
    /\ trx = EmptyStore
    /\ pc = "idle"
    /\ pd = NoData
    /\ i = 0
    /\ now = 0
    /\ clock = 0
    /\ tariffPeriodsCount = 0
    /\ boxRatesCount = 0
    /\ log = <<>>
    /\ result = NoResult
    /\ cmpIn = <<>>
    /\ cmpOut = <<>>
    /\ sync = SyncIdle
    /\ pair = NoPair
    /\ openedWith = <<>>

\* sync moves to position `next` having done `step`, with error `error`
SyncTo(next, step, error) ==
    sync' = [sync EXCEPT !.pc = next, !.steps = Append(@, step),
                         !.error = error]

BatchVars == <<db, trx, pc, pd, i, now, clock, tariffPeriodsCount,
               boxRatesCount, log, result, cmpIn, cmpOut, pair, openedWith>>

\* the cron trigger calls syncRates
syncRates ==
    /\ sync.pc = "idle"
    /\ pc = "idle"
    /\ sync' = [SyncIdle EXCEPT !.pc = "fetch"]
    /\ UNCHANGED BatchVars

\* variant: a failed fetch is attempted again within the run
FetchFailsRetries ==
    /\ sync.pc = "fetch"
    /\ SyncTo("fetch", "fetch", "fetch")
    /\ UNCHANGED BatchVars

\* getWarehouseBoxRates throws
FetchFails ==
    /\ sync.pc = "fetch"
    /\ SyncTo("failed", "fetch", "fetch")
    /\ UNCHANGED BatchVars

\* getWarehouseBoxRates returns no warehouse list: syncRates returns
FetchEmpty ==
    /\ sync.pc = "fetch"
    /\ SyncTo("done", "fetch", "none")
    /\ UNCHANGED BatchVars

\* getWarehouseBoxRates returns a snapshot and the batch starts
FetchOk(list, dtTillMax) ==
    /\ sync.pc = "fetch"
    /\ transformAndSaveDataToDb(list, dtTillMax)
    /\ SyncTo("reconcile", "fetch", "none")

\* transformAndSaveDataToDb returns its summary
Reconciled ==
    /\ sync.pc = "reconcile"
    /\ pc = "returned"
    /\ Settled
    /\ SyncTo("query", "reconcile", "none")

\* transformAndSaveDataToDb throws
ReconcileFails ==
    /\ sync.pc = "reconcile"
    /\ pc = "thrown"
    /\ Settled
    /\ SyncTo("failed", "reconcile", "reconcile")

\* getDataForGoogleSheets reads the committed store at today = the clock
Query ==
    /\ sync.pc = "query"
    /\ \E rows \in getDataForGoogleSheets(db, clock) :
            sync' = [sync EXCEPT !.pc = "publish",
                                 !.steps = Append(@, "query"),
                                 !.rates = rows]
    /\ UNCHANGED BatchVars

QueryFails ==
    /\ sync.pc = "query"
    /\ SyncTo("failed", "query", "query")
    /\ UNCHANGED BatchVars

\* updateSpreadsheets writes the rows to every spreadsheet
updateSpreadsheets ==
    /\ sync.pc = "publish"
    /\ SyncTo("done", "publish", "none")
    /\ UNCHANGED BatchVars

\* variant: a failed publish undoes what the store holds
PublishFailsUndoes ==
    /\ sync.pc = "publish"
    /\ SyncTo("failed", "publish", "publish")
    /\ db' = EmptyStore
    /\ trx' = EmptyStore
    /\ UNCHANGED <<pc, pd, i, now, clock, tariffPeriodsCount, boxRatesCount,
                   log, result, cmpIn, cmpOut, pair, openedWith>>

PublishFails ==
    /\ sync.pc = "publish"
    /\ SyncTo("failed", "publish", "publish")
    /\ UNCHANGED BatchVars

\* variant: the handler does not catch, a run that throws is the last one
SyncEndsUncaught ==
    /\ sync.pc = "done"
    /\ sync' = SyncIdle
    /\ UNCHANGED BatchVars

\* syncRates returns, or throws and the cron handler logs the error
SyncEnds ==
    /\ sync.pc \in {"done", "failed"}
    /\ sync' = SyncIdle
    /\ UNCHANGED BatchVars

NextSync ==
    \/ Tick
    \/ syncRates
    \/ FetchFails
    \/ FetchEmpty
    \/ \E list \in Snapshots, dtTillMax \in Horizons : FetchOk(list, dtTillMax)
    \/ processWarehouses
    \/ processTariffPeriodsAndRates
    \/ saveBoxRates
    \/ Commit
    \/ StoreFails
    \/ Reconciled
    \/ ReconcileFails
    \/ Query
    \/ QueryFails
    \/ updateSpreadsheets
    \/ PublishFails
    \/ SyncEnds

SpecSync == SyncInit /\ [][NextSync]_vars

----------------------------------------------------------------------------
(* The current-rates query on its own, over stores whose rate rows differ  *)
(* in box_storage_coef.                                                    *)

MaxRows == 3

\* a store of one warehouse per key and n rate rows, each with its own
\* period [0, MaxTime], a warehouse and a storage coefficient
SortStores ==
    UNION {
        {[warehouses |-> [k \in Keys |-> [key |-> k]],
          periods |-> [r \in 1..n |-> [start_date |-> 0, end_date |-> MaxTime]],
          rates |-> [r \in 1..n |->
                        [warehouse_id |-> row[r][1], tariff_period_id |-> r,
                         vec |-> VecWith(StorageCoef, row[r][2])]]]
            : row \in [1..n -> Keys \X {Base, Edge, 2 * Base}]}
        : n \in 0..MaxRows}

SortInit ==
    /\ db \in SortStores
    /\ trx = db
    /\ pc = "idle"
    /\ pd = NoData
    /\ i = 0
    /\ now = 0
    /\ clock = 0
    /\ tariffPeriodsCount = 0
    /\ boxRatesCount = 0
    /\ log = <<>>
    /\ result = NoResult
    /\ cmpIn = <<>>
    /\ cmpOut = <<>>
    /\ sync = [SyncIdle EXCEPT !.pc = "query", !.steps = <<"fetch", "reconcile">>]
    /\ pair = NoPair
    /\ openedWith = <<>>

NextSort ==
    \/ Query
    \/ QueryFails

SpecSort == SortInit /\ [][NextSort]_vars

----------------------------------------------------------------------------
(* Two batches that may overlap.  The cron trigger (src/src/app.ts) starts *)
(* a run whether or not the previous one has ended.  Each batch is a       *)
(* transaction at the store's default isolation, read committed: a         *)
(* statement sees the committed rows and the transaction's own writes, an  *)
(* update waits for a row another open transaction has updated, an insert  *)
(* waits for an open insert of the same unique key.  pair.store holds      *)
(* every row with its owner (`by`) and its pending update (`lock`).        *)

PairRecords == 1    \* records in one snapshot of these batches
PairBatches == 3    \* batches started
PairKeys == 1       \* natural keys their snapshots name

Free == 0           \* a committed row; a row no transaction has updated
Gone == -1          \* a row of a transaction that was rolled back

Runs == {1, 2}
Other(T) == 3 - T

Running(R) == R.pc \notin {"idle", "committed", "failed"}

PairSnapshots ==
    UNION {[1..n -> {[key |-> k, rate |-> VecWith(NumFields, x)] :
                        k \in 1..PairKeys, x \in {Base, Far}}] :
            n \in 0..PairRecords}

\* the store as a statement of transaction T sees it; a row T does not see
\* keeps its position and matches no lookup
View(st, T) ==
    [warehouses |-> [w \in 1..Len(st.warehouses) |->
        [key |-> IF st.warehouses[w].by \in {Free, T}
                 THEN st.warehouses[w].key ELSE 0]],
     periods |-> [p \in 1..Len(st.periods) |->
        IF st.periods[p].by \in {Free, T}
        THEN [start_date |-> st.periods[p].start_date,
              end_date |-> IF st.periods[p].lock = T
                           THEN st.periods[p].newEnd
                           ELSE st.periods[p].end_date]
        ELSE [start_date |-> 1, end_date |-> 0]],
     rates |-> [r \in 1..Len(st.rates) |->
        [warehouse_id |-> IF st.rates[r].by \in {Free, T}
                          THEN st.rates[r].warehouse_id ELSE NoId,
         tariff_period_id |-> st.rates[r].tariff_period_id,
         vec |-> IF st.rates[r].lock = T THEN st.rates[r].newVec
                 ELSE st.rates[r].vec]]]

\* variant: the store refuses, at commit, a period that starts at or after
\* the start of another period and before its end
InstallExclusive(st, T) ==
    IF \E p, q \in 1..Len(st.periods) :
            /\ p # q
            /\ st.periods[q].by = T
            /\ st.periods[p].by \in {Free, T}
            /\ st.periods[p].start_date <= st.periods[q].start_date
            /\ st.periods[q].start_date <
                    (IF st.periods[p].lock = T THEN st.periods[p].newEnd
                     ELSE st.periods[p].end_date)
    THEN [warehouses |-> [w \in 1..Len(st.warehouses) |->
            IF st.warehouses[w].by = T
            THEN [st.warehouses[w] EXCEPT !.by = Gone] ELSE st.warehouses[w]],
          periods |-> [p \in 1..Len(st.periods) |->
            [st.periods[p] EXCEPT
                !.by = IF @ = T THEN Gone ELSE @,
                !.newEnd = IF st.periods[p].lock = T THEN NULL ELSE @,
                !.lock = IF @ = T THEN Free ELSE @]],
          rates |-> [r \in 1..Len(st.rates) |->
            [st.rates[r] EXCEPT
                !.by = IF @ = T THEN Gone ELSE @,
                !.newVec = IF st.rates[r].lock = T THEN <<>> ELSE @,
                !.lock = IF @ = T THEN Free ELSE @]]]
    ELSE [warehouses |-> [w \in 1..Len(st.warehouses) |->
            IF st.warehouses[w].by = T
            THEN [st.warehouses[w] EXCEPT !.by = Free] ELSE st.warehouses[w]],
          periods |-> [p \in 1..Len(st.periods) |->
            [st.periods[p] EXCEPT
                !.by = IF @ = T THEN Free ELSE @,
                !.end_date = IF st.periods[p].lock = T
                             THEN st.periods[p].newEnd ELSE @,
                !.newEnd = IF st.periods[p].lock = T THEN NULL ELSE @,
                !.lock = IF @ = T THEN Free ELSE @]],
          rates |-> [r \in 1..Len(st.rates) |->
            [st.rates[r] EXCEPT
                !.by = IF @ = T THEN Free ELSE @,
                !.vec = IF st.rates[r].lock = T THEN st.rates[r].newVec ELSE @,
                !.newVec = IF st.rates[r].lock = T THEN <<>> ELSE @,
                !.lock = IF @ = T THEN Free ELSE @]]]

\* commit of T: its rows and its updates become the committed ones
Install(st, T) ==
    [warehouses |-> [w \in 1..Len(st.warehouses) |->
        IF st.warehouses[w].by = T
        THEN [st.warehouses[w] EXCEPT !.by = Free] ELSE st.warehouses[w]],
     periods |-> [p \in 1..Len(st.periods) |->
        [st.periods[p] EXCEPT
            !.by = IF @ = T THEN Free ELSE @,
            !.end_date = IF st.periods[p].lock = T
                         THEN st.periods[p].newEnd ELSE @,
            !.newEnd = IF st.periods[p].lock = T THEN NULL ELSE @,
            !.lock = IF @ = T THEN Free ELSE @]],
     rates |-> [r \in 1..Len(st.rates) |->
        [st.rates[r] EXCEPT
            !.by = IF @ = T THEN Free ELSE @,
            !.vec = IF st.rates[r].lock = T THEN st.rates[r].newVec ELSE @,
            !.newVec = IF st.rates[r].lock = T THEN <<>> ELSE @,
            !.lock = IF @ = T THEN Free ELSE @]]]

\* rollback of T: its rows are gone and its updates dropped
Discard(st, T) ==
    [warehouses |-> [w \in 1..Len(st.warehouses) |->
        IF st.warehouses[w].by = T
        THEN [st.warehouses[w] EXCEPT !.by = Gone] ELSE st.warehouses[w]],
     periods |-> [p \in 1..Len(st.periods) |->
        [st.periods[p] EXCEPT
            !.by = IF @ = T THEN Gone ELSE @,
            !.newEnd = IF st.periods[p].lock = T THEN NULL ELSE @,
            !.lock = IF @ = T THEN Free ELSE @]],
     rates |-> [r \in 1..Len(st.rates) |->
        [st.rates[r] EXCEPT
            !.by = IF @ = T THEN Gone ELSE @,
            !.newVec = IF st.rates[r].lock = T THEN <<>> ELSE @,
            !.lock = IF @ = T THEN Free ELSE @]]]

\* update tariff_periods set end_date = e where id = p, by T
SetEnd(st, T, p, e) ==
    [st EXCEPT !.periods[p].lock = T, !.periods[p].newEnd = e]

\* insert into tariff_periods, by T
AddPeriod(st, T, start, e) ==
    [st EXCEPT !.periods = Append(@, [start_date |-> start, end_date |-> e,
                                      by |-> T, lock |-> Free,
                                      newEnd |-> NULL])]

\* the run of T moves to R, the store to st
PairTo(T, R, st) ==
    /\ pair' = [store |-> st,
                run |-> [pair.run EXCEPT ![T] = R],
                started |-> pair.started + (IF Running(R) /\ ~Running(pair.run[T])
                                            THEN 1 ELSE 0)]
    /\ UNCHANGED <<db, trx, pc, pd, i, now, clock, tariffPeriodsCount,
                   boxRatesCount, log, result, cmpIn, cmpOut, sync, openedWith>>

\* variant: the failed run's writes stay
PairFailedKeeps(T) ==
    PairTo(T, [pc |-> "failed"], pair.store)

\* the run of T fails: the transaction is rolled back
PairFailed(T) ==
    PairTo(T, [pc |-> "failed"], Discard(pair.store, T))

\* the cron trigger starts a run, whatever the other run is doing
PairBegin(T, list, dtTillMax) ==
    /\ ~Running(pair.run[T])
    /\ pair.started < PairBatches
    /\ Len(pair.store.periods) < MaxPeriods
    /\ PairTo(T, [pc |-> IF Len(list) = 0 THEN "commit" ELSE "warehouses",
                  sub |-> "find",
                  pd |-> convertWbDataToProcessedData(list, dtTillMax),
                  i |-> 1,
                  now |-> IF Len(list) = 0 THEN clock ELSE 0,
                  cur |-> [period |-> NoId, branch |-> "none"],
                  tariffPeriodsCount |-> 0,
                  boxRatesCount |-> 0,
                  seen |-> <<>>,
                  over |-> FALSE],
              pair.store)

\* one statement of processWarehouses in run T: the lookup, or the insert
\* that follows a lookup that found nothing
PairResolve(T) ==
    LET R == pair.run[T]
        st == pair.store
        key == R.pd.warehouses[R.i].key
        found == {w \in 1..Len(st.warehouses) :
                    View(st, T).warehouses[w].key = key}
        taken == {w \in 1..Len(st.warehouses) :
                    st.warehouses[w].key = key /\ st.warehouses[w].by = Free}
        held == {w \in 1..Len(st.warehouses) :
                    st.warehouses[w].key = key
                    /\ st.warehouses[w].by = Other(T)}
        pos == After("warehouses", "periods", R.i, Len(R.pd.warehouses))
        Resolved(w) == [R EXCEPT !.pd.warehouses[R.i].id = w,
                                 !.sub = "find",
                                 !.pc = pos[1],
                                 !.i = pos[2],
                                 !.now = IF pos[1] = "periods" THEN clock
                                         ELSE @]
    IN  /\ R.pc = "warehouses"
        /\ \/ /\ R.sub = "find"
              /\ found # {}
              /\ \E w \in found : PairTo(T, Resolved(w), st)
           \/ /\ R.sub = "find"
              /\ found = {}
              /\ PairTo(T, [R EXCEPT !.sub = "insert"], st)
           \/ /\ R.sub = "insert"
              /\ taken # {}
              /\ PairFailed(T)
           \/ /\ R.sub = "insert"
              /\ taken = {}
              /\ held = {}
              /\ PairTo(T, Resolved(Len(st.warehouses) + 1),
                        [st EXCEPT !.warehouses =
                            Append(@, [key |-> key, by |-> T])])

\* the reads of one iteration of processTariffPeriodsAndRates in run T:
\* the locator and, if it finds a period, the comparator
PairLocate(T) ==
    LET R == pair.run[T]
        view == View(pair.store, T)
        warehouse == R.pd.warehouses[R.i]
        boxRate == R.pd.boxRates[R.i]
        current == getCurrentPeriodForWarehouse(view, warehouse.id, R.now)
        Decided(p, branch) ==
            [R EXCEPT !.sub = "write",
                      !.cur = [period |-> p, branch |-> branch],
                      !.over = @ \/ Running(pair.run[Other(T)])]
    IN  /\ R.pc = "periods"
        /\ R.sub = "find"
        /\ \/ /\ current = {}
              /\ PairTo(T, Decided(NoId, "create"), pair.store)
           \/ \E currentPeriod \in current :
              \E existingRate \in
                    ExistingRates(view, currentPeriod, warehouse.id) :
                PairTo(T, Decided(currentPeriod,
                        IF checkRatesMatchForWarehouse(existingRate,
                                                       boxRate.vec)
                        THEN "extend" ELSE "rollover"),
                       pair.store)

\* the writes of that iteration: extend, roll over or create
PairWrite(T) ==
    LET R == pair.run[T]
        st == pair.store
        H == R.pd.tariffPeriodEndDate
        p == R.cur.period
        newPeriod == Len(st.periods) + 1
        pos == After("periods", "save", R.i, Len(R.pd.warehouses))
        Written(period, created) ==
            [R EXCEPT !.pd.boxRates[R.i].tariff_period_id = period,
                      !.pd.boxRates[R.i].warehouse_id =
                            R.pd.warehouses[R.i].id,
                      !.tariffPeriodsCount = @ + created,
                      !.boxRatesCount = @ + created,
                      !.seen = Append(@, [warehouse |-> R.pd.warehouses[R.i].id,
                                          period |-> p,
                                          branch |-> R.cur.branch,
                                          bound |-> period]),
                      !.sub = "find",
                      !.pc = pos[1],
                      !.i = pos[2]]
    IN  /\ R.pc = "periods"
        /\ R.sub = "write"
        /\ \/ /\ R.cur.branch = "extend"
              /\ st.periods[p].lock \in {Free, T}
              /\ PairTo(T, Written(p, 0), SetEnd(st, T, p, H))
           \/ /\ R.cur.branch = "rollover"
              /\ st.periods[p].lock \in {Free, T}
              /\ newPeriod <= MaxPeriods
              /\ PairTo(T, Written(newPeriod, 1),
                        AddPeriod(SetEnd(st, T, p, R.now), T, R.now, H))
           \/ /\ R.cur.branch = "create"
              /\ newPeriod <= MaxPeriods
              /\ PairTo(T, Written(newPeriod, 1),
                        AddPeriod(st, T, R.now, H))

\* one iteration of saveBoxRates in run T
PairSave(T) ==
    LET R == pair.run[T]
        st == pair.store
        boxRate == R.pd.boxRates[R.i]
        rows == RateRows(View(st, T), boxRate.tariff_period_id,
                         boxRate.warehouse_id)
        held == {r \in 1..Len(st.rates) :
                    /\ st.rates[r].by = Other(T)
                    /\ st.rates[r].warehouse_id = boxRate.warehouse_id
                    /\ st.rates[r].tariff_period_id = boxRate.tariff_period_id}
        pos == After("save", "commit", R.i, Len(R.pd.boxRates))
        Saved == [R EXCEPT !.pc = pos[1], !.i = pos[2]]
    IN  /\ R.pc = "save"
        /\ \/ /\ rows # {}
              /\ \A r \in rows : st.rates[r].lock \in {Free, T}
              /\ PairTo(T, Saved,
                        [st EXCEPT !.rates = [r \in 1..Len(@) |->
                            IF r \in rows
                            THEN [@[r] EXCEPT !.lock = T,
                                    !.newVec = DbRoundVec(boxRate.vec)]
                            ELSE @[r]]])
           \/ /\ rows = {}
              /\ held = {}
              /\ PairTo(T, Saved,
                        [st EXCEPT !.rates = Append(@,
                            [warehouse_id |-> boxRate.warehouse_id,
                             tariff_period_id |-> boxRate.tariff_period_id,
                             vec |-> DbRoundVec(boxRate.vec),
                             by |-> T, lock |-> Free, newVec |-> <<>>])])

\* the transaction of run T commits and the summary is returned
PairCommit(T) ==
    LET R == pair.run[T]
    IN  /\ R.pc = "commit"
        /\ PairTo(T, [pc |-> "committed",
                      now |-> R.now,
                      horizon |-> R.pd.tariffPeriodEndDate,
                      seen |-> R.seen,
                      over |-> R.over],
                  Install(pair.store, T))

NextPair ==
    \/ Tick
    \/ \E T \in Runs, list \in PairSnapshots, dtTillMax \in Horizons :
            PairBegin(T, list, dtTillMax)
    \/ \E T \in Runs : PairResolve(T)
    \/ \E T \in Runs : PairLocate(T)
    \/ \E T \in Runs : PairWrite(T)
    \/ \E T \in Runs : PairSave(T)
    \/ \E T \in Runs : PairCommit(T)

SpecPair == Init /\ [][NextPair]_vars

\* the same two runs over snapshots of up to two records that name either
\* key, all with the same rates and horizon
FirstRecords == 2

FirstSnapshots ==
    UNION {[1..n -> {[key |-> k, rate |-> VecWith(NumFields, Base)] : k \in Keys}] :
            n \in 0..FirstRecords}

NextFirst ==
    \/ \E T \in Runs, list \in FirstSnapshots : PairBegin(T, list, MaxTime)
    \/ \E T \in Runs : PairResolve(T)
    \/ \E T \in Runs : PairLocate(T)
    \/ \E T \in Runs : PairWrite(T)
    \/ \E T \in Runs : PairSave(T)
    \/ \E T \in Runs : PairCommit(T)

SpecFirst == Init /\ [][NextFirst]_vars

----------------------------------------------------------------------------
(* Properties.  A batch is judged where its transaction is about to commit: *)
(* db is the store before the batch and trx the store the commit installs.  *)

TypeOK ==
    /\ pc \in {"idle", "warehouses", "periods", "save", "commit", "returned",
              "thrown"}
    /\ Len(db.periods) <= MaxPeriods
    /\ Len(trx.periods) <= MaxPeriods

\* rows of box_rates of store s that belong to warehouse w
RowsOf(s, w) == {r \in 1..Len(s.rates) : s.rates[r].warehouse_id = w}

\* periods attached to warehouse w through a box_rates row
PeriodsOf(s, w) == {s.rates[r].tariff_period_id : r \in RowsOf(s, w)}

\* the Period Locator predicate of the specification
Covers(p, t) == p.start_date <= t /\ (p.end_date = NULL \/ p.end_date >= t)

ActivePeriods(s, w, t) == {p \in PeriodsOf(s, w) : Covers(s.periods[p], t)}

\* the stored vectors bound to (w, p)
StoredVecs(s, w, p) ==
    {s.rates[r].vec : r \in {q \in RowsOf(s, w) : s.rates[q].tariff_period_id = p}}

\* record k of the running batch
KeyOf(k) == pd.warehouses[k].key
IdOf(k) == pd.warehouses[k].id
VecOf(k) == pd.boxRates[k].vec
Horizon == pd.tariffPeriodEndDate
RecordIds == 1..Len(pd.warehouses)
KeyOnce(k) == \A j \in RecordIds : KeyOf(j) = KeyOf(k) => j = k
KnownBefore(k) == \E w \in 1..Len(db.warehouses) : db.warehouses[w].key = KeyOf(k)

\* a numeral rounded to two decimal places, half up
HalfUpCents(n) == IF n = NaN THEN NaN ELSE ((n + 50) \div 100) * 100

AbsDiff(a, b) == IF a >= b THEN a - b ELSE b - a

\* C1: after any sequence of committed batches that do not overlap, every
\* warehouse has at most one attached period active at any instant t
\* (start <= t and (end is null or end >= t)).  Stated for periods opened at
\* different instants, which leaves aside a snapshot that names one warehouse
\* twice and so opens two periods at once.
C1_AtMostOneActive ==
    \A w \in 1..Len(db.warehouses) : \A t \in Times :
        \A p, q \in ActivePeriods(db, w, t) :
            db.periods[p].start_date = db.periods[q].start_date

\* the records of the running batch are identical to what the store holds:
\* each warehouse has exactly one period [start, H1] with start <= H1 < H,
\* bound to the vector as the first run stored it
SecondRun ==
    /\ pc = "commit"
    /\ RecordIds # {}
    /\ \A k \in RecordIds :
        /\ KnownBefore(k)
        /\ \E p \in 1..Len(db.periods) :
            /\ PeriodsOf(db, IdOf(k)) = {p}
            /\ db.periods[p].start_date <= db.periods[p].end_date
            /\ db.periods[p].end_date < Horizon
            /\ StoredVecs(db, IdOf(k), p) =
                    {[f \in Fields |-> HalfUpCents(VecOf(k)[f])]}

OnePeriodEndingAtHorizon ==
    /\ \A k \in RecordIds :
        \E p \in 1..Len(trx.periods) :
            /\ PeriodsOf(trx, IdOf(k)) = {p}
            /\ trx.periods[p].end_date = Horizon
    /\ Len(trx.periods) = Len(db.periods)
    /\ Len(trx.rates) = Len(db.rates)
    /\ tariffPeriodsCount = 0
    /\ boxRatesCount = 0

C3_FailureRestoresStore ==
    [][(pc \in {"warehouses", "periods", "save"} /\ pc' = "thrown")
            => db' = db]_vars

C3_Witness ==
    /\ pc = "thrown"
    /\ result.status = "error"
    /\ result.pass = "save"
    /\ result.at >= 2
    /\ result.written >= 3

\* the only period of warehouse w active at the batch's now, before the batch
TheActive(w) == CHOOSE p \in ActivePeriods(db, w, now) : TRUE

\* the only vector bound to (w, p) before the batch
TheStored(w, p) == CHOOSE v \in StoredVecs(db, w, p) : TRUE

\* record k finds its warehouse with exactly one active period
OneActive(k) ==
    /\ KeyOnce(k)
    /\ KnownBefore(k)
    /\ Cardinality(ActivePeriods(db, IdOf(k), now)) = 1
    /\ Cardinality(StoredVecs(db, IdOf(k), TheActive(IdOf(k)))) = 1

Differs(a, b) == a # NaN /\ b # NaN /\ AbsDiff(a, b) > Tol

NewPeriodsOf(w) == PeriodsOf(trx, w) \ PeriodsOf(db, w)
NewRowsOf(w) == RowsOf(trx, w) \ RowsOf(db, w)

\* record k: active period [t0, H0] bound to R, H > H0, and the incoming
\* vector differs from R by more than 0.01 in some field
RolloverCase(k) ==
    /\ pc = "commit"
    /\ OneActive(k)
    /\ Horizon > db.periods[TheActive(IdOf(k))].end_date
    /\ \E f \in Fields :
        Differs(VecOf(k)[f], TheStored(IdOf(k), TheActive(IdOf(k)))[f])

\* the old period closed at now, one new period [now, H], one new rate row
\* bound to it holding `held`, the old rate rows as they were
RolledOver(k, held) ==
    LET w == IdOf(k)
    IN  /\ trx.periods[TheActive(w)].end_date = now
        /\ trx.periods[TheActive(w)].start_date =
                db.periods[TheActive(w)].start_date
        /\ \E p \in NewPeriodsOf(w) :
            /\ NewPeriodsOf(w) = {p}
            /\ p > Len(db.periods)
            /\ trx.periods[p] = [start_date |-> now, end_date |-> Horizon]
            /\ \E r \in NewRowsOf(w) :
                /\ NewRowsOf(w) = {r}
                /\ trx.rates[r].tariff_period_id = p
                /\ trx.rates[r].vec = held
        /\ \A r \in RowsOf(db, w) : trx.rates[r] = db.rates[r]

InCents(v) == [f \in Fields |-> HalfUpCents(v[f])]

\* C4 as stated: a material change closes the old period at now and opens
\* one new period [now, H1] with one new rate row holding R'; the old rate
\* row still holds R.
C4_RolloverHoldsIncoming ==
    \A k \in RecordIds : RolloverCase(k) => RolledOver(k, VecOf(k))

\* C4 amended: the same, the new rate row holding R' rounded to two decimal
\* places, as its decimal(10,2) columns store it.
C4_RolloverHoldsRounded ==
    \A k \in RecordIds : RolloverCase(k) => RolledOver(k, InCents(VecOf(k)))

C4_Witness ==
    \E k \in RecordIds :
        /\ RolloverCase(k)
        /\ RolledOver(k, InCents(VecOf(k)))
        /\ db.periods[TheActive(IdOf(k))].end_date > now

\* record k: its warehouse has an active period at now and the comparator
\* finds the incoming vector to match the vector bound to it
ExtendCase(k) ==
    /\ pc = "commit"
    /\ KeyOnce(k)
    /\ KnownBefore(k)
    /\ ActivePeriods(db, IdOf(k), now) # {}
    /\ \A p \in ActivePeriods(db, IdOf(k), now) :
        \A v \in StoredVecs(db, IdOf(k), p) :
            checkRatesMatchForWarehouse(v, VecOf(k))

Extended(k) ==
    /\ \E p \in ActivePeriods(db, IdOf(k), now) :
        trx.periods[p].end_date = Horizon
    /\ PeriodsOf(trx, IdOf(k)) = PeriodsOf(db, IdOf(k))
    /\ RowsOf(trx, IdOf(k)) = RowsOf(db, IdOf(k))

\* C5: with an active period and a matching vector the batch sets the
\* period's end to H and inserts no period and no rate row for the
\* warehouse.
C5_MatchExtends == \A k \in RecordIds : ExtendCase(k) => Extended(k)

C5_Witness ==
    \E k \in RecordIds :
        /\ ExtendCase(k)
        /\ Extended(k)
        /\ db.periods[TheActive(IdOf(k))].end_date # Horizon
        /\ Len(trx.rates) > Len(db.rates)

\* C6: the nine numeric fields of a rate row never change after the row was
\* created, whichever branch a later batch takes.
C6_RateRowsImmutable ==
    pc = "commit" =>
        \A r \in 1..Len(db.rates) : trx.rates[r].vec = db.rates[r].vec

Mismatches(k) ==
    ~checkRatesMatchForWarehouse(TheStored(IdOf(k), TheActive(IdOf(k))),
                                 VecOf(k))

\* N >= 2 distinct warehouses, each with an active period, exactly one of
\* them with a mismatching vector
IsolationCase ==
    /\ pc = "commit"
    /\ Len(pd.warehouses) >= 2
    /\ \A k \in RecordIds : OneActive(k)
    /\ Cardinality({k \in RecordIds : Mismatches(k)}) = 1

Isolated ==
    LET changed == CHOOSE k \in RecordIds : Mismatches(k)
    IN  /\ tariffPeriodsCount = 1
        /\ boxRatesCount = 1
        /\ Len(trx.periods) = Len(db.periods) + 1
        /\ Len(trx.rates) = Len(db.rates) + 1
        /\ NewPeriodsOf(IdOf(changed)) = {Len(trx.periods)}
        /\ NewRowsOf(IdOf(changed)) = {Len(trx.rates)}
        /\ \A k \in RecordIds \ {changed} :
            /\ PeriodsOf(trx, IdOf(k)) = PeriodsOf(db, IdOf(k))
            /\ trx.periods[TheActive(IdOf(k))].start_date =
                    db.periods[TheActive(IdOf(k))].start_date
            /\ trx.periods[TheActive(IdOf(k))].end_date = Horizon

\* C7: in a batch over N distinct warehouses with active periods, one of
\* which mismatches, one period and one rate row are created, both for that
\* warehouse, and every other warehouse keeps its period with end = H,
\* wherever the records stand in the snapshot.
C7_OneChangeOneRollover == IsolationCase => Isolated

C7_Witness ==
    /\ IsolationCase
    /\ Isolated
    /\ Mismatches(2)
    /\ db.periods[TheActive(IdOf(1))].end_date # Horizon

C7_WitnessFirst ==
    /\ IsolationCase
    /\ Isolated
    /\ Mismatches(1)

FirstSeen(k) == pc = "commit" /\ ~KnownBefore(k)

\* a new warehouse row, a new period [now, H] and a new rate row bound to
\* both holding `held`; the comparator was not called for the record
Created(k, held) ==
    LET w == IdOf(k)
        p == pd.boxRates[k].tariff_period_id
    IN  /\ w > Len(db.warehouses)
        /\ {v \in 1..Len(trx.warehouses) : trx.warehouses[v].key = KeyOf(k)}
                = {w}
        /\ p > Len(db.periods)
        /\ trx.periods[p] = [start_date |-> now, end_date |-> Horizon]
        /\ \E r \in RowsOf(trx, w) :
            /\ {q \in RowsOf(trx, w) : trx.rates[q].tariff_period_id = p} = {r}
            /\ r > Len(db.rates)
            /\ trx.rates[r].vec = held
        /\ KeyOnce(k) => PeriodsOf(trx, w) = {p}
        /\ \A n \in 1..Len(log) : ~(log[n].op = "check" /\ log[n].at = k)

\* C8 as stated: a record with a natural key the store has not seen gives
\* one new warehouse row, one new period [now, H] and one new rate row
\* holding the incoming vector, and the comparator is not consulted.
C8_FirstSeenHoldsIncoming ==
    \A k \in RecordIds : FirstSeen(k) => Created(k, VecOf(k))

\* C8 amended: the same, the new rate row holding the incoming vector
\* rounded to two decimal places.
C8_FirstSeenHoldsRounded ==
    \A k \in RecordIds : FirstSeen(k) => Created(k, InCents(VecOf(k)))

C8_Witness ==
    \E k \in RecordIds :
        /\ FirstSeen(k)
        /\ Created(k, InCents(VecOf(k)))
        /\ Len(db.warehouses) > 0
        /\ Len(pd.warehouses) = 2

\* |a - b| <= 0.01 on the numerals; a malformed number is within no tolerance
WithinTol(a, b) == a # NaN /\ b # NaN /\ AbsDiff(a, b) <= Tol

\* C9: checkRatesMatchForWarehouse returns true if and only if every one of
\* the nine fields of the incoming vector is within 0.01 of the stored one.
C9_MatchIffWithinTol ==
    (cmpOut # <<>> /\ cmpIn[1] # NoRow) =>
        (cmpOut[1] <=> \A f \in Fields : WithinTol(cmpIn[1][f], cmpIn[2][f]))

\* the fields in which the incoming vector of record k is not the stored one
ChangedFields(k) ==
    {f \in Fields :
        VecOf(k)[f] # TheStored(IdOf(k), TheActive(IdOf(k)))[f]}

ChangeOf(k, f) ==
    AbsDiff(VecOf(k)[f], TheStored(IdOf(k), TheActive(IdOf(k)))[f])

\* C10: with an active period, a vector that differs from the stored one by
\* exactly 0.01 in one field causes no rollover, and one that differs by
\* 0.0101 in one field causes a rollover.
C10_ToleranceBoundary ==
    pc = "commit" =>
        \A k \in RecordIds : \A f \in Fields :
            (OneActive(k) /\ ChangedFields(k) = {f}) =>
                /\ ChangeOf(k, f) = Tol => NewPeriodsOf(IdOf(k)) = {}
                /\ ChangeOf(k, f) = Tol + 1 => NewPeriodsOf(IdOf(k)) # {}

\* record k went through the extend branch
OnlyExtended(k) ==
    \E n \in 1..Len(log) : log[n].op = "extended" /\ log[n].at = k

\* C11: the summary of a successful batch reports the tariff_periods rows
\* and the box_rates rows this run inserted and the number of records of the
\* snapshot; a record whose period was only extended adds nothing to the
\* two row counts.
C11_SummaryCountsNewRows ==
    [][(pc = "commit" /\ pc' = "returned") =>
        /\ result'.status = "ok"
        /\ result'.tariffPeriodsCount = Len(db'.periods) - Len(db.periods)
        /\ result'.boxRatesCount = Len(db'.rates) - Len(db.rates)
        /\ result'.warehousesCount = Len(pd.warehouses)
        /\ result'.tariffPeriodsCount =
                Cardinality({k \in RecordIds : ~OnlyExtended(k)})
        /\ result'.boxRatesCount =
                Cardinality({k \in RecordIds : ~OnlyExtended(k)})]_vars

C11_Witness ==
    /\ pc = "returned"
    /\ result.status = "ok"
    /\ result.warehousesCount = 2
    /\ result.tariffPeriodsCount = 1
    /\ result.boxRatesCount = 1
    /\ Len(db.periods) = 3
    /\ Len(db.rates) = 3

\* rate rows of the committed store whose period has not ended before t
Unended(t) ==
    {r \in 1..Len(db.rates) :
        \/ db.periods[db.rates[r].tariff_period_id].end_date = NULL
        \/ db.periods[db.rates[r].tariff_period_id].end_date >= t}

\* the (warehouse, period, rate) row of rate row r
Joined(r) ==
    [geo_name |-> db.warehouses[db.rates[r].warehouse_id].key % 2,
     warehouse_name |-> db.warehouses[db.rates[r].warehouse_id].key,
     vec |-> db.rates[r].vec,
     start_date |-> db.periods[db.rates[r].tariff_period_id].start_date,
     end_date |-> db.periods[db.rates[r].tariff_period_id].end_date]

\* C12: the current-rates query evaluated at now returns one row for every
\* rate row whose period has end = null or end >= now, returns no row whose
\* period has end < now, and changes nothing in the store.
C12_QueryReturnsUnended ==
    [][(sync.pc = "query" /\ sync'.pc = "publish") =>
        /\ Len(sync'.rates) = Cardinality(Unended(clock))
        /\ \A r \in Unended(clock) :
                Cardinality({n \in 1..Len(sync'.rates) :
                                sync'.rates[n] = Joined(r)})
                    = Cardinality({q \in Unended(clock) : Joined(q) = Joined(r)})
        /\ \A n \in 1..Len(sync'.rates) :
                \/ sync'.rates[n].end_date = NULL
                \/ sync'.rates[n].end_date >= clock
        /\ db' = db
        /\ trx' = trx]_vars

C12_Witness ==
    /\ sync.pc = "publish"
    /\ Len(sync.rates) = 2
    /\ Len(db.rates) = 3
    /\ \E n \in 1..Len(sync.rates) : sync.rates[n].end_date = clock

\* the warehouses rows of store s that carry natural key `key`
RowsWithKey(s, key) ==
    {w \in 1..Len(s.warehouses) : s.warehouses[w].key = key}

\* every record is resolved to the one row of its key, a key the store knew
\* keeps its row, and one row is inserted for each new key
ResolvedOnce ==
    /\ \A k \in RecordIds : RowsWithKey(trx, KeyOf(k)) = {IdOf(k)}
    /\ \A k \in RecordIds :
            KnownBefore(k) => RowsWithKey(db, KeyOf(k)) = {IdOf(k)}
    /\ Len(trx.warehouses) = Len(db.warehouses)
            + Cardinality({KeyOf(k) : k \in {j \in RecordIds : ~KnownBefore(j)}})

\* C13: entity resolution is idempotent: every natural key has at most one
\* warehouses row, a batch resolves each record to the one row of its key
\* and inserts a row only for a key the store does not hold (once, however
\* often the key occurs), and no step deletes or changes a warehouses row.
C13_ResolutionIdempotent ==
    /\ [](\A v, w \in 1..Len(db.warehouses) :
            db.warehouses[v].key = db.warehouses[w].key => v = w)
    /\ [](pc = "commit" => ResolvedOnce)
    /\ [][/\ Len(db'.warehouses) >= Len(db.warehouses)
          /\ \A w \in 1..Len(db.warehouses) :
                db'.warehouses[w] = db.warehouses[w]]_vars

C13_Witness ==
    /\ pc = "commit"
    /\ Len(pd.warehouses) = 2
    /\ KeyOf(1) = KeyOf(2)
    /\ IdOf(1) = IdOf(2)
    /\ ~KnownBefore(1)
    /\ Len(db.warehouses) = 1
    /\ Len(trx.warehouses) = 2
    /\ ResolvedOnce

C13_WitnessLater ==
    /\ pc = "commit"
    /\ Len(pd.warehouses) = 2
    /\ KnownBefore(1)
    /\ KnownBefore(2)
    /\ IdOf(1) = 2
    /\ IdOf(2) = 1
    /\ Len(trx.warehouses) = Len(db.warehouses)

\* the committed rows of the store of the overlapping batches
Stands(row) == row.by = 0

\* committed period q is attached to warehouse w by a committed rate row
AttachedTo(q, w) ==
    \E r \in 1..Len(pair.store.rates) :
        /\ Stands(pair.store.rates[r])
        /\ pair.store.rates[r].warehouse_id = w
        /\ pair.store.rates[r].tariff_period_id = q

\* both batches have committed and each rolled over period p of warehouse
\* w, opening periods q1 and q2
BothRolledOver(w, p, q1, q2) ==
    /\ pair.run[1].pc = "committed"
    /\ pair.run[2].pc = "committed"
    /\ \E m \in 1..Len(pair.run[1].seen) :
            pair.run[1].seen[m] = [warehouse |-> w, period |-> p,
                                   branch |-> "rollover", bound |-> q1]
    /\ \E m \in 1..Len(pair.run[2].seen) :
            pair.run[2].seen[m] = [warehouse |-> w, period |-> p,
                                   branch |-> "rollover", bound |-> q2]

\* period q stands in the store as [start, end], attached to w
StandsAs(q, w, start, end) ==
    /\ Stands(pair.store.periods[q])
    /\ pair.store.periods[q].start_date = start
    /\ pair.store.periods[q].end_date = end
    /\ AttachedTo(q, w)

PairIds == 0..MaxPeriods

\* C14: nothing in the reconciler or the schema stops two batches that
\* process the same warehouse from both committing: when both have rolled
\* over the same period, both commits stand and the warehouse has the two
\* periods [now1, H1] and [now2, H2], active together at every instant
\* both cover.
C14_BothCommitsStand ==
    \A w, p, q1, q2 \in PairIds :
        BothRolledOver(w, p, q1, q2) =>
            /\ q1 # q2
            /\ StandsAs(q1, w, pair.run[1].now, pair.run[1].horizon)
            /\ StandsAs(q2, w, pair.run[2].now, pair.run[2].horizon)

\* the two batches overlapped, both committed, and the warehouse has two
\* periods that are both active at an instant after both started
C14_Witness ==
    \E w, p, q1, q2 \in PairIds :
        /\ BothRolledOver(w, p, q1, q2)
        /\ pair.run[1].over
        /\ pair.run[2].over
        /\ StandsAs(q1, w, pair.run[1].now, pair.run[1].horizon)
        /\ StandsAs(q2, w, pair.run[2].now, pair.run[2].horizon)
        /\ \E t \in Horizons :
            /\ t > pair.run[1].now
            /\ t > pair.run[2].now
            /\ Covers(pair.store.periods[q1], t)
            /\ Covers(pair.store.periods[q2], t)

\* C15: when the current-rates query or the publishing step of a syncRates
\* run starts, the run's reconciliation has committed (the store is the one
\* its transaction left), and neither step, failing or not, nor the end of
\* the run changes the store.
C15_PublishFailureKeepsStore ==
    /\ [](sync.pc \in {"query", "publish"} => (pc = "idle" /\ db = trx))
    /\ [][sync.pc \in {"query", "publish", "failed", "done"} => db' = db]_vars

C15_Witness ==
    /\ sync.pc = "failed"
    /\ sync.error = "publish"
    /\ sync.steps = <<"fetch", "reconcile", "query", "publish">>
    /\ Len(db.periods) = 3
    /\ Len(sync.rates) >= 1
    /\ db = trx

\* C16: when getWarehouseBoxRates fails, the syncRates run ends failed with
\* the fetch error, its only step is the one fetch (no reconciliation, no
\* query, no publish, no second fetch), and the store and the batch state
\* are left as they were.
C16_FetchFailureStopsRun ==
    /\ [](sync.error = "fetch" =>
            (sync.pc = "failed" /\ sync.steps = <<"fetch">> /\ pc = "idle"))
    /\ [][(sync.pc = "fetch" /\ sync'.pc = "failed") =>
            /\ sync'.error = "fetch"
            /\ db' = db
            /\ trx' = trx
            /\ log' = log
            /\ result' = result]_vars
    /\ [][sync.error = "fetch" =>
            (db' = db /\ sync'.pc \in {"failed", "idle"})]_vars

C16_Witness ==
    /\ sync.pc = "failed"
    /\ sync.error = "fetch"
    /\ sync.steps = <<"fetch">>
    /\ Len(db.periods) >= 2
    /\ Len(db.rates) >= 2

\* C17: when a step inside the batch transaction throws,
\* transformAndSaveDataToDb ends with an error and no summary, and the error
\* delivered carries the original error object as its cause.
C17_ErrorCarriesCause ==
    pc = "thrown" =>
        /\ result.status = "error"
        /\ result.error.cause = <<StoreError(result.pass, result.at)>>

\* the lines the step wrote to the log
Written == {n \in 1..Len(log') : n > Len(log)}

\* the locator finds more than one active period for the record at hand
Ambiguous ==
    /\ pc = "periods"
    /\ pd.warehouses[i].id # NoId
    /\ Cardinality(getCurrentPeriodForWarehouse(trx, pd.warehouses[i].id,
                                                now)) > 1

\* C18: when more than one period of a warehouse is active at the reference
\* instant, the Period Locator logs or reports the anomaly: the batch does
\* not go on with one period of the set without a trace of it.
C18_AnomalyDetectable ==
    [][(Ambiguous /\ pc' # "thrown") =>
            \E n \in Written : log'[n].op \in {"ambiguous", "violation"}]_vars

\* the period step of the batch at hand wrote log line n
WrittenLine(n) == n \in Written /\ log'[n].pass = "periods"

\* C19: a batch reads the clock once, when processTariffPeriodsAndRates
\* starts and before its first warehouse, and keeps the value to its end:
\* the period a lookup returns is active at that now, a closed period gets
\* end = now and every new period start = now, however far the clock has
\* moved on.
C19_NowCapturedOnce ==
    /\ [][(pc = "warehouses" /\ pc' = "periods") => now' = clock]_vars
    /\ [][(pc \in {"periods", "save"} /\ pc' \in {"periods", "save", "commit"})
            => now' = now]_vars
    /\ [][(pc = "periods" /\ pc' # "thrown") =>
            /\ \A p \in 1..Len(trx'.periods) :
                    p > Len(trx.periods) => trx'.periods[p].start_date = now
            /\ \A n \in 1..Len(log') :
                    (WrittenLine(n) /\ log'[n].op \in {"check", "closed"}) =>
                        Active(trx.periods[log'[n].period], now)
            /\ \A n \in 1..Len(log') :
                    (WrittenLine(n) /\ log'[n].op = "closed") =>
                        trx'.periods[log'[n].period].end_date = now]_vars

\* the clock has moved on since the batch read it, and the batch closed a
\* period and opened one for its second record
C19_Witness ==
    /\ pc = "commit"
    /\ clock > now
    /\ Len(pd.warehouses) = 2
    /\ \E n \in 1..Len(log) :
        /\ log[n].op = "closed"
        /\ log[n].at = 2
        /\ trx.periods[log[n].period].end_date = now
        /\ trx.periods[log[n].created].start_date = now

\* The per-record algorithm: each record in turn is resolved, its active
\* period located and compared, and its period and its rate row written,
\* before the next record is looked at.  An outcome is the store and the
\* two counts; RecordStep gives the outcomes of record k from outcome o.
Outcome(s, periods, rates) ==
    [store |-> s, tariffPeriodsCount |-> periods, boxRatesCount |-> rates]

Resolved(s, key) ==
    IF RowsWithKey(s, key) = {}
    THEN [s EXCEPT !.warehouses = Append(@, [key |-> key])]
    ELSE s

BoxRate(w, p, vec) ==
    [warehouse_id |-> w, tariff_period_id |-> p, vec |-> vec]

RecordStep(o, k) ==
    LET key == pd.warehouses[k].key
        vec == pd.boxRates[k].vec
        s1 == Resolved(o.store, key)
        opened == Len(s1.periods) + 1
        fresh == [start_date |-> now, end_date |-> pd.tariffPeriodEndDate]
    IN  UNION {
            LET current == getCurrentPeriodForWarehouse(s1, w, now)
            IN  IF current = {}
                THEN {Outcome(Upsert([s1 EXCEPT !.periods = Append(@, fresh)],
                                     BoxRate(w, opened, vec)),
                              o.tariffPeriodsCount + 1,
                              o.boxRatesCount + 1)}
                ELSE UNION {
                        {IF checkRatesMatchForWarehouse(existingRate, vec)
                         THEN Outcome(
                                Upsert([s1 EXCEPT !.periods[p].end_date =
                                            pd.tariffPeriodEndDate],
                                       BoxRate(w, p, vec)),
                                o.tariffPeriodsCount, o.boxRatesCount)
                         ELSE Outcome(
                                Upsert([s1 EXCEPT !.periods =
                                            Append([@ EXCEPT ![p].end_date = now],
                                                   fresh)],
                                       BoxRate(w, opened, vec)),
                                o.tariffPeriodsCount + 1,
                                o.boxRatesCount + 1)
                            : existingRate \in ExistingRates(s1, p, w)}
                        : p \in current}
            : w \in RowsWithKey(s1, key)}

RECURSIVE PerRecord(_, _)
PerRecord(outcomes, k) ==
    IF k > Len(pd.warehouses) THEN outcomes
    ELSE PerRecord(UNION {RecordStep(o, k) : o \in outcomes}, k + 1)

\* what a store holds, row ids aside: its periods, and its rate rows with
\* the warehouse and the period each is bound to
Holds(s) ==
    [periods |-> Len(s.periods),
     rates |-> Len(s.rates),
     bound |-> {[key |-> s.warehouses[s.rates[r].warehouse_id].key,
                 period |-> s.periods[s.rates[r].tariff_period_id],
                 vec |-> s.rates[r].vec] : r \in 1..Len(s.rates)}]

SameAsPerRecord ==
    \E o \in PerRecord({Outcome(db, 0, 0)}, 1) :
        /\ Holds(o.store) = Holds(trx)
        /\ o.tariffPeriodsCount = tariffPeriodsCount
        /\ o.boxRatesCount = boxRatesCount

\* C20: for every snapshot, one that names a natural key more than once
\* included, the three passes leave the periods and rate rows and return the
\* counts that the per-record algorithm leaves and returns.
C20_ThreePassIsPerRecord == pc = "commit" => SameAsPerRecord

\* the same for the snapshots that name every natural key once
PerRecordWhenKeysOnce ==
    (pc = "commit" /\ \A k \in RecordIds : KeyOnce(k)) => SameAsPerRecord

\* record k finds one active period, and its vector differs by more than
\* 0.01 in some field from the vector the period's rate row was inserted
\* with
ChangedSinceOpened(k) ==
    /\ OneActive(k)
    /\ openedWith[TheActive(IdOf(k))] # NoRow
    /\ \E f \in Fields :
            Differs(VecOf(k)[f], openedWith[TheActive(IdOf(k))][f])

\* C21: over any sequence of batches, a batch whose incoming vector differs
\* by more than 0.01 in some field from the vector the warehouse's active
\* period was created with closes that period at now and opens a new one.
C21_RolloverOnDrift ==
    pc = "commit" =>
        \A k \in RecordIds :
            ChangedSinceOpened(k) =>
                /\ trx.periods[TheActive(IdOf(k))].end_date = now
                /\ NewPeriodsOf(IdOf(k)) # {}

\* record k of the running batch carries a malformed rate string
Malformed(k) == \E f \in Fields : VecOf(k)[f] = NaN

\* C22: a batch whose snapshot has a malformed rate string in some record
\* fails as a whole: it does not get to commit, the malformed value is not
\* compared against a stored rate and no rate row holds it.
C22_MalformedFailsBatch ==
    /\ (\E k \in RecordIds : Malformed(k)) => pc # "commit"
    /\ \A n \in 1..Len(log) :
            log[n].op = "check" => ~Malformed(log[n].at)
    /\ \A r \in 1..Len(trx.rates) : \A f \in Fields :
            trx.rates[r].vec[f] # NaN

\* warehouse w is named by a record of the running batch
InSnapshot(w) == \E k \in RecordIds : IdOf(k) = w

\* no period is deleted, no start changes, and a period whose end changes
\* was active at now and attached to a warehouse of the snapshot
PeriodsFramed ==
    /\ Len(trx.periods) >= Len(db.periods)
    /\ \A p \in 1..Len(db.periods) :
        /\ trx.periods[p].start_date = db.periods[p].start_date
        /\ trx.periods[p].end_date # db.periods[p].end_date =>
            /\ Active(db.periods[p], now)
            /\ \E w \in 1..Len(db.warehouses) :
                    InSnapshot(w) /\ p \in PeriodsOf(db, w)

\* the periods and rate rows of a warehouse absent from the snapshot are
\* what they were
AbsentFramed ==
    \A w \in 1..Len(db.warehouses) :
        ~InSnapshot(w) =>
            /\ PeriodsOf(trx, w) = PeriodsOf(db, w)
            /\ RowsOf(trx, w) = RowsOf(db, w)
            /\ \A p \in PeriodsOf(db, w) : trx.periods[p] = db.periods[p]
            /\ \A r \in RowsOf(db, w) : trx.rates[r] = db.rates[r]

\* every row the store held, other than a period, is what it was
RowsFramed ==
    /\ Len(trx.warehouses) >= Len(db.warehouses)
    /\ Len(trx.rates) >= Len(db.rates)
    /\ \A w \in 1..Len(db.warehouses) : trx.warehouses[w] = db.warehouses[w]
    /\ \A r \in 1..Len(db.rates) : trx.rates[r] = db.rates[r]

\* C23: a batch changes only the end of periods active at now that belong
\* to a warehouse of its snapshot, and inserts rows: no period is deleted,
\* no start changes, no other end changes, every other row stays as it
\* was, and a warehouse absent from the snapshot keeps its periods and rate
\* rows unchanged.
C23_BatchFrame ==
    pc = "commit" => (PeriodsFramed /\ AbsentFramed /\ RowsFramed)

\* the part of it that is about periods and absent warehouses
PeriodsAndAbsentFramed ==
    pc = "commit" => (PeriodsFramed /\ AbsentFramed)

\* nothing of a batch is left: no open transaction, no batch data
NoBatchLeft ==
    /\ pc = "idle"
    /\ trx = db
    /\ pd = NoData
    /\ log = <<>>
    /\ result = NoResult

\* C24: a syncRates run that fails is caught by the cron handler: the run
\* ends without a second attempt at any step, the next trigger can start a
\* new run, and a failed reconciliation leaves the store and the batch state
\* as if it had not been attempted, so the new run starts from what the
\* store held before.
C24_FailedRunIsCaught ==
    /\ [](sync.pc = "failed" => (NoBatchLeft /\ ENABLED SyncEnds))
    /\ [](sync.pc = "idle" => (NoBatchLeft /\ ENABLED syncRates))
    /\ [][sync.pc = "failed" =>
            (db' = db /\ sync'.pc \in {"failed", "idle"})]_vars
    /\ [][(sync.pc = "reconcile" /\ db' # db) => pc' = "returned"]_vars
    /\ [][(sync.pc = "reconcile" /\ sync'.pc = "failed") =>
            (pc = "thrown" /\ db' = db /\ trx' = db)]_vars
    /\ [](\A m, n \in 1..Len(sync.steps) :
            sync.steps[m] = sync.steps[n] => m = n)

\* a reconciliation that had a populated store before it has failed and the
\* handler has the error
C24_Witness ==
    /\ sync.pc = "failed"
    /\ sync.error = "reconcile"
    /\ sync.steps = <<"fetch", "reconcile">>
    /\ Len(db.rates) >= 2
    /\ NoBatchLeft
    /\ ENABLED SyncEnds

BoundRows(p) == {r \in 1..Len(db.rates) : db.rates[r].tariff_period_id = p}

\* C26: in the committed store every tariff_periods row is bound to exactly
\* one box_rates row, hence to one warehouse, and no two box_rates rows have
\* the same (warehouse, period) pair.
C26_OneRateRowPerPeriod ==
    /\ \A p \in 1..Len(db.periods) : Cardinality(BoundRows(p)) = 1
    /\ \A q, r \in 1..Len(db.rates) :
            (/\ db.rates[q].warehouse_id = db.rates[r].warehouse_id
             /\ db.rates[q].tariff_period_id = db.rates[r].tariff_period_id)
                => q = r

\* a batch has committed a rollover next to an extension: two warehouses,
\* three periods, three rate rows
C26_Witness ==
    /\ pc = "returned"
    /\ result.status = "ok"
    /\ result.warehousesCount = 2
    /\ result.tariffPeriodsCount = 1
    /\ Len(db.warehouses) = 2
    /\ Len(db.periods) = 3
    /\ Len(db.rates) = 3
    /\ \E p \in 1..Len(db.periods) : db.periods[p].end_date > db.periods[p].start_date

\* the half-open intervals [start, end) of periods a and b have no instant
\* in common; an interval with end <= start is empty, one with no end is
\* unbounded
HalfOpenDisjoint(a, b) ==
    \/ a.end_date # NULL /\ a.end_date <= a.start_date
    \/ b.end_date # NULL /\ b.end_date <= b.start_date
    \/ a.end_date # NULL /\ a.end_date <= b.start_date
    \/ b.end_date # NULL /\ b.end_date <= a.start_date

\* C27: after batches that do not overlap, at strictly increasing instants
\* and with every natural key at most once in a snapshot, the periods of
\* one warehouse are pairwise disjoint as half-open intervals, and a period
\* closed by a rollover ends where the period that rollover opens starts.
C27_PeriodsDisjoint ==
    /\ [](\A w \in 1..Len(db.warehouses) :
            \A p, q \in PeriodsOf(db, w) :
                p # q => HalfOpenDisjoint(db.periods[p], db.periods[q]))
    /\ [][pc = "periods" =>
            \A n \in 1..Len(log') :
                (WrittenLine(n) /\ log'[n].op = "closed") =>
                    trx'.periods[log'[n].period].end_date =
                        trx'.periods[log'[n].created].start_date]_vars

\* one warehouse has gone through two rollovers at later and later
\* instants: three periods, each ending where the next starts
C27_Witness ==
    /\ pc = "idle"
    /\ PeriodsOf(db, 1) = {1, 2, 3}
    /\ db.periods[1].end_date = db.periods[2].start_date
    /\ db.periods[2].end_date = db.periods[3].start_date
    /\ db.periods[1].start_date < db.periods[2].start_date
    /\ db.periods[2].start_date < db.periods[3].start_date
    /\ db.periods[3].end_date > db.periods[3].start_date

\* the warehouse of record k has a period active at now whose rate row holds
\* `held`, and the current-rates query at now returns a row of the warehouse
\* with `held`
Current(k, held) ==
    /\ \E p \in ActivePeriods(trx, IdOf(k), now) :
            held \in StoredVecs(trx, IdOf(k), p)
    /\ \A rows \in getDataForGoogleSheets(trx, now) :
            \E n \in 1..Len(rows) :
                /\ rows[n].warehouse_name = KeyOf(k)
                /\ rows[n].vec = held

\* C28: when a batch commits, every warehouse of its snapshot has a period
\* active at now whose rate row holds the vector the snapshot carried for
\* it, and the current-rates query run then returns that vector for the
\* warehouse.
C28_SnapshotIsCurrent ==
    pc = "commit" => \A k \in RecordIds : Current(k, VecOf(k))

\* the same with the vector as the decimal(10,2) columns hold it
SnapshotIsCurrentInCents ==
    pc = "commit" => \A k \in RecordIds : Current(k, InCents(VecOf(k)))

\* the same for a horizon that is not earlier than now and a warehouse the
\* snapshot names once
SnapshotIsCurrentUntilHorizon ==
    (pc = "commit" /\ Horizon >= now) =>
        \A k \in RecordIds : KeyOnce(k) => Current(k, InCents(VecOf(k)))

WellFormed(period) ==
    period.end_date # NULL => period.start_date <= period.end_date

\* C29: in every reachable store, committed or inside a transaction, every
\* period with an end has start <= end.
C29_StartNotAfterEnd ==
    /\ \A p \in 1..Len(db.periods) : WellFormed(db.periods[p])
    /\ \A p \in 1..Len(trx.periods) : WellFormed(trx.periods[p])

\* closing a period at now keeps start <= end
ClosingKeepsWellFormed ==
    [][pc = "periods" =>
        \A n \in 1..Len(log') :
            (WrittenLine(n) /\ log'[n].op = "closed"
                /\ WellFormed(trx.periods[log'[n].period])) =>
                    WellFormed(trx'.periods[log'[n].period])]_vars

\* the warehouses rows of the store of the overlapping runs that are
\* committed and carry `key`
CommittedWithKey(st, key) ==
    {w \in 1..Len(st.warehouses) :
        st.warehouses[w].key = key /\ st.warehouses[w].by = Free}

\* nothing of run T is in store st: no row it inserted, no update it made
NothingOf(st, T) ==
    /\ \A w \in 1..Len(st.warehouses) : st.warehouses[w].by # T
    /\ \A p \in 1..Len(st.periods) :
            st.periods[p].by # T /\ st.periods[p].lock # T
    /\ \A r \in 1..Len(st.rates) :
            st.rates[r].by # T /\ st.rates[r].lock # T

\* C30: when two runs overlap and both see a natural key for the first
\* time, the store never holds two committed warehouses rows with that key:
\* the insert of the run that comes second fails on the committed row, and
\* that run ends in error with none of its writes left.
C30_OneRowPerKey ==
    /\ [](\A key \in Keys :
            Cardinality(CommittedWithKey(pair.store, key)) <= 1)
    /\ [][\A T \in Runs :
            (pair.run[T].pc = "warehouses" /\ pair'.run[T].pc # "warehouses"
                /\ pair.run[T].sub = "insert") =>
                    IF CommittedWithKey(pair.store,
                            pair.run[T].pd.warehouses[pair.run[T].i].key) # {}
                    THEN /\ pair'.run[T].pc = "failed"
                         /\ NothingOf(pair'.store, T)
                    ELSE pair'.run[T].pc # "failed"]_vars

\* both runs looked for the key and found nothing, one committed its row,
\* the other had inserted a row of another key before its insert failed
C30_Witness ==
    \E T \in Runs :
        /\ pair.run[T].pc = "failed"
        /\ pair.run[Other(T)].pc = "committed"
        /\ pair.started = 2
        /\ \E key \in Keys : Cardinality(CommittedWithKey(pair.store, key)) = 1
        /\ \E w \in 1..Len(pair.store.warehouses) :
                pair.store.warehouses[w].by = Gone
        /\ NothingOf(pair.store, T)
====
